---- MODULE Spec2Model ----
(***************************************************************************)
(* A model of the stock analysis tool's core (src/utils.py):               *)
(*   fetch_stock_info   - normalization of the fundamentals snapshot       *)
(*   calculate_wacc     - weighted average cost of capital                 *)
(*   calculate_dcf      - discounted cash flow value per share             *)
(*                                                                         *)
(* Numbers are exact rationals n/d (the code computes in IEEE doubles; the *)
(* rounding of a double is not modelled).  A value also records whether it *)
(* is a plain Python number or a numpy scalar read out of a pandas table,  *)
(* because the two divide by zero differently.                             *)
(***************************************************************************)
EXTENDS Integers, Sequences, FiniteSets, TLC

(***************************************************************************)
(* Python values.  k is the kind:                                          *)
(*   "Absent"  the key is not in the dict                                  *)
(*   "None"    Python None                                                 *)
(*   "nan"     float NaN (a missing cell of a pandas table)                *)
(*   "inf"     a non-finite float produced by a numpy division by zero     *)
(*   "num"     the rational n/d, d > 0, in lowest terms                    *)
(* np is TRUE for a numpy scalar (numpy.float64), FALSE for a Python one.  *)
(***************************************************************************)
Abs(i) == IF i < 0 THEN -i ELSE i

RECURSIVE GCDNat(_, _)
GCDNat(a, b) == IF b = 0 THEN a ELSE GCDNat(b, a % b)

GCD(a, b) == GCDNat(Abs(a), Abs(b))

Absent == [k |-> "Absent", n |-> 0, d |-> 1, np |-> FALSE]
None == [k |-> "None", n |-> 0, d |-> 1, np |-> FALSE]
NaN == [k |-> "nan", n |-> 0, d |-> 1, np |-> TRUE]
Inf == [k |-> "inf", n |-> 0, d |-> 1, np |-> TRUE]

\* The rational n/d as a value, reduced to lowest terms with d > 0.
Mk(n, d, np) ==
    LET g == GCD(n, d)
        s == IF d < 0 THEN -1 ELSE 1
    IN  [k |-> "num", n |-> s * (n \div g), d |-> s * (d \div g), np |-> np]

Py(n) == Mk(n, 1, FALSE)
Np(n) == Mk(n, 1, TRUE)
Frac(n, d) == Mk(n, d, FALSE)

IsNum(v) == v.k = "num"
IsNone(v) == v.k = "None"
IsFloatSpecial(v) == v.k \in {"nan", "inf"}
\* bool(v): None and zero are falsy; NaN and inf are truthy.
Truthy(v) == \/ IsFloatSpecial(v)
             \/ IsNum(v) /\ v.n # 0

\* pandas.notna(v)
NotNa(v) == v.k \in {"num", "inf"}

\* dict.get(key): None when the key is absent.
Get(v) == IF v.k = "Absent" THEN None ELSE v

\* Equality of two values as numbers, whatever their Python type.
SameValue(a, b) == a.k = b.k /\ a.n = b.n /\ a.d = b.d

\* v > 0 and v = 0 for arithmetic values; every comparison with NaN is false.
Positive(v) == v.k = "inf" \/ (IsNum(v) /\ v.n > 0)
IsZero(v) == IsNum(v) /\ v.n = 0

Special(a, b) == IF a.k = "nan" \/ b.k = "nan" THEN NaN ELSE Inf

Add(a, b) ==
    IF IsFloatSpecial(a) \/ IsFloatSpecial(b) THEN Special(a, b)
    ELSE LET g == GCD(a.d, b.d)
         IN  Mk(a.n * (b.d \div g) + b.n * (a.d \div g), (a.d \div g) * b.d,
                a.np \/ b.np)

Neg(a) == IF IsNum(a) THEN [a EXCEPT !.n = -a.n] ELSE a

Sub(a, b) == Add(a, Neg(b))

\* Cross-reduced product, so that intermediate integers stay small.
Mul(a, b) ==
    IF IsFloatSpecial(a) \/ IsFloatSpecial(b) THEN Special(a, b)
    ELSE LET g1 == GCD(a.n, b.d)
             g2 == GCD(b.n, a.d)
             h1 == IF g1 = 0 THEN 1 ELSE g1
             h2 == IF g2 = 0 THEN 1 ELSE g2
         IN  Mk((a.n \div h1) * (b.n \div h2), (a.d \div h2) * (b.d \div h1),
                a.np \/ b.np)

\* a / b raises ZeroDivisionError exactly when b is zero and both operands
\* are Python numbers; a numpy operand makes the quotient inf or nan.
DivRaises(a, b) == IsZero(b) /\ ~a.np /\ ~b.np

Div(a, b) ==
    IF IsFloatSpecial(a) \/ IsFloatSpecial(b) THEN Special(a, b)
    ELSE IF IsZero(b) THEN (IF IsZero(a) THEN NaN ELSE Inf)
    ELSE Mul(a, Mk(b.d, b.n, b.np))

AbsVal(a) == IF IsNum(a) THEN [a EXCEPT !.n = Abs(a.n)] ELSE a

RECURSIVE Pow(_, _)
Pow(a, i) == IF i = 0 THEN Py(1) ELSE Mul(a, Pow(a, i - 1))

(***************************************************************************)
(* A pandas DataFrame of a financial statement: index is the set of row    *)
(* labels present, ncol the number of period columns (column 1 is the most *)
(* recent period), at[r] the cells of row r.  Cells are numpy scalars.     *)
(***************************************************************************)
Empty(df) == df.index = {} \/ df.ncol = 0

\* The first column, scanning from the most recent, among the columns S that
\* pass the loop's test; 0 if none.
FirstCol(S) ==
    IF S = {} THEN 0 ELSE CHOOSE c \in S : \A x \in S : c <= x

FCF == "Free Cash Flow"
OCF == "Operating Cash Flow"
CAPEX == "Capital Expenditure"
TD == "Total Debt"
LTD == "Long Term Debt"
CCE == "Cash And Cash Equivalents"
CCESTI == "Cash Cash Equivalents And Short Term Investments"
IE == "Interest Expense"
IENO == "Interest Expense Non Operating"

(***************************************************************************)
(* fetch_stock_info.  info is the dict stock.info, src the responses of    *)
(* the data provider for the ticker: src.X.ok = FALSE means that reading   *)
(* X raises.  Each step is the corresponding block of the function.        *)
(***************************************************************************)

\* A half-guarded price step: the fast price is taken only into an empty field.
PriceStepGuarded(info, src) ==
    IF ~src.fast.ok THEN info
    ELSE IF Truthy(src.fast.last_price) /\ IsNone(Get(info.currentPrice))
    THEN [info EXCEPT !.currentPrice = src.fast.last_price,
                      !.regularMarketPrice = src.fast.last_price]
    ELSE IF ~src.hist.ok THEN info
    ELSE IF Len(src.hist.close) > 0
    THEN [info EXCEPT !.currentPrice = src.hist.close[Len(src.hist.close)],
                      !.regularMarketPrice = src.hist.close[Len(src.hist.close)]]
    ELSE info

\* Step 1, lines 28-41: the price, from the fast quote or the recent history.
PriceStep(info, src) ==
    IF ~src.fast.ok THEN info
    ELSE IF Truthy(src.fast.last_price)
    THEN [info EXCEPT !.currentPrice = src.fast.last_price,
                      !.regularMarketPrice = src.fast.last_price]
    ELSE IF ~src.hist.ok THEN info
    ELSE IF Len(src.hist.close) > 0
    THEN [info EXCEPT !.currentPrice = src.hist.close[Len(src.hist.close)],
                      !.regularMarketPrice = src.hist.close[Len(src.hist.close)]]
    ELSE info

\* A shares step that takes the fast quote's shares whatever the dict holds.
SharesStepOverwrite(info, src) ==
    IF src.fast.ok /\ Truthy(src.fast.shares)
    THEN [info EXCEPT !.sharesOutstanding = src.fast.shares]
    ELSE info

\* Step 2, lines 47-52: shares outstanding from the fast quote if missing.
SharesStep(info, src) ==
    IF IsNone(Get(info.sharesOutstanding)) /\ src.fast.ok /\ Truthy(src.fast.shares)
    THEN [info EXCEPT !.sharesOutstanding = src.fast.shares]
    ELSE info

\* The direct row, lines 62-66: the first cell that is not NaN and not zero.
DirectFcf(df) ==
    LET c == FirstCol({x \in 1..df.ncol : NotNa(df.at[FCF][x]) /\ ~IsZero(df.at[FCF][x])})
    IN  IF c = 0 THEN Absent ELSE df.at[FCF][c]

\* A fallback that subtracts the capital expenditure instead of adding it.
FallbackFcfSubtract(df) ==
    LET c == FirstCol({x \in 1..df.ncol : NotNa(df.at[OCF][x]) /\ NotNa(df.at[CAPEX][x])})
    IN  IF c = 0 THEN Absent ELSE Sub(df.at[OCF][c], df.at[CAPEX][c])

\* The fallback, lines 70-75: ops + capex of the first column with both.
FallbackFcf(df) ==
    LET c == FirstCol({x \in 1..df.ncol : NotNa(df.at[OCF][x]) /\ NotNa(df.at[CAPEX][x])})
    IN  IF c = 0 THEN Absent ELSE Add(df.at[OCF][c], df.at[CAPEX][c])

\* The value lines 57-75 assign to info['freeCashFlow']; Absent if none.
ExtractFcf(cf) ==
    IF ~cf.ok \/ Empty(cf.df) THEN Absent
    ELSE IF FCF \in cf.df.index THEN DirectFcf(cf.df)
    ELSE IF OCF \in cf.df.index /\ CAPEX \in cf.df.index THEN FallbackFcf(cf.df)
    ELSE Absent

\* Step 3, lines 55-77: free cash flow from the cash-flow statement if missing.
FcfStep(info, src) ==
    IF IsNone(Get(info.freeCashFlow)) /\ ExtractFcf(src.cf).k # "Absent"
    THEN [info EXCEPT !.freeCashFlow = ExtractFcf(src.cf)]
    ELSE info

\* Step 4, lines 80-93: total debt from the balance sheet if missing.  The
\* key is deleted first, and stays deleted when the balance sheet has no row.
DebtStep(info, src) ==
    IF ~IsNone(Get(info.totalDebt)) THEN info
    ELSE IF ~src.bs.ok \/ Empty(src.bs.df) THEN [info EXCEPT !.totalDebt = Absent]
    ELSE IF TD \in src.bs.df.index
    THEN [info EXCEPT !.totalDebt = src.bs.df.at[TD][1]]
    ELSE IF LTD \in src.bs.df.index
    THEN [info EXCEPT !.totalDebt = src.bs.df.at[LTD][1]]
    ELSE [info EXCEPT !.totalDebt = Absent]

\* Step 5, lines 95-103: total cash from the balance sheet if missing.
CashStep(info, src) ==
    IF ~IsNone(Get(info.totalCash)) THEN info
    ELSE IF ~src.bs.ok \/ Empty(src.bs.df) THEN info
    ELSE IF CCE \in src.bs.df.index
    THEN [info EXCEPT !.totalCash = src.bs.df.at[CCE][1]]
    ELSE IF CCESTI \in src.bs.df.index
    THEN [info EXCEPT !.totalCash = src.bs.df.at[CCESTI][1]]
    ELSE info

\* Lines 26-103: the five steps in order.
NormalizationSteps(info, src) ==
    CashStep(DebtStep(FcfStep(SharesStep(PriceStep(info, src), src), src), src), src)

(***************************************************************************)
(* calculate_wacc(ticker, info), lines 187-250.                            *)
(***************************************************************************)
\* Lines 202-204: CAPM with a risk-free rate of 0.0425 and a premium of 0.05.
CostOfEquity(beta) == Add(Frac(425, 10000), Mul(beta, Frac(5, 100)))

\* Lines 211-220: the most recent cell of the first row found, as a magnitude.
InterestExpense(financials) ==
    IF Empty(financials) THEN Py(0)
    ELSE IF IE \in financials.index THEN AbsVal(financials.at[IE][1])
    ELSE IF IENO \in financials.index THEN AbsVal(financials.at[IENO][1])
    ELSE Py(0)

\* A cost of debt that does not ask for a positive interest expense.
CostOfDebtAnyInterest(total_debt, interest_expense) ==
    IF Truthy(total_debt) /\ Positive(total_debt)
    THEN Div(interest_expense, total_debt)
    ELSE Frac(45, 1000)

\* Lines 223-228.
CostOfDebt(total_debt, interest_expense) ==
    IF Truthy(total_debt) /\ Positive(total_debt) /\ Positive(interest_expense)
    THEN Div(interest_expense, total_debt)
    ELSE Frac(45, 1000)

\* Lines 240-244, with the tax rate of line 230.
BlendedWacc(market_cap, total_debt, cost_of_equity, cost_of_debt) ==
    LET total_value == Add(market_cap, total_debt)
        equity_weight == Div(market_cap, total_value)
        debt_weight == Div(total_debt, total_value)
    IN  Add(Mul(equity_weight, cost_of_equity),
            Mul(Mul(debt_weight, cost_of_debt), Sub(Py(1), Frac(21, 100))))

AllNone(interest_expense) ==
    [wacc |-> None, re |-> None, rd |-> None, interest_expense |-> interest_expense]

\* calculate_wacc that looks at the debt before it looks at the market cap.
CalculateWaccDebtFirst(inf, fin) ==
    LET beta == Get(inf.beta)
        total_debt == Get(inf.totalDebt)
        market_cap == Get(inf.marketCap)
        interest_expense == InterestExpense(fin.df)
        cost_of_equity == CostOfEquity(beta)
    IN  IF IsNone(beta) THEN AllNone(None)
        ELSE IF ~fin.ok THEN AllNone(None)
        ELSE IF ~Truthy(total_debt)
        THEN [wacc |-> cost_of_equity, re |-> cost_of_equity, rd |-> Py(0),
              interest_expense |-> interest_expense]
        ELSE IF ~Truthy(market_cap) THEN AllNone(interest_expense)
        ELSE IF DivRaises(market_cap, Add(market_cap, total_debt))
        THEN AllNone(interest_expense)
        ELSE [wacc |-> BlendedWacc(market_cap, total_debt, cost_of_equity,
                                   CostOfDebt(total_debt, interest_expense)),
              re |-> cost_of_equity,
              rd |-> CostOfDebt(total_debt, interest_expense),
              interest_expense |-> interest_expense]

\* calculate_wacc whose all-equity branch returns the cost of debt it computed.
CalculateWaccKeepsDebtCost(inf, fin) ==
    LET beta == Get(inf.beta)
        total_debt == Get(inf.totalDebt)
        market_cap == Get(inf.marketCap)
        interest_expense == InterestExpense(fin.df)
        cost_of_equity == CostOfEquity(beta)
    IN  IF IsNone(beta) THEN AllNone(None)
        ELSE IF ~fin.ok THEN AllNone(None)
        ELSE IF ~Truthy(market_cap) THEN AllNone(interest_expense)
        ELSE IF ~Truthy(total_debt)
        THEN [wacc |-> cost_of_equity, re |-> cost_of_equity,
              rd |-> CostOfDebt(total_debt, interest_expense),
              interest_expense |-> interest_expense]
        ELSE IF DivRaises(market_cap, Add(market_cap, total_debt))
        THEN AllNone(interest_expense)
        ELSE [wacc |-> BlendedWacc(market_cap, total_debt, cost_of_equity,
                                   CostOfDebt(total_debt, interest_expense)),
              re |-> cost_of_equity,
              rd |-> CostOfDebt(total_debt, interest_expense),
              interest_expense |-> interest_expense]

\* Lines 191-250 for a dict info: the triple returned, and the interest
\* expense read (None where the function returns before reading it).  A
\* raising stock.financials, or a division of Python numbers by zero, ends
\* in the except clause of line 248.
CalculateWaccOf(inf, fin) ==
    LET beta == Get(inf.beta)
        total_debt == Get(inf.totalDebt)
        market_cap == Get(inf.marketCap)
        interest_expense == InterestExpense(fin.df)
        cost_of_equity == CostOfEquity(beta)
    IN  IF IsNone(beta) THEN AllNone(None)
        ELSE IF ~fin.ok THEN AllNone(None)
        ELSE IF ~Truthy(market_cap) THEN AllNone(interest_expense)
        ELSE IF ~Truthy(total_debt)
        THEN [wacc |-> cost_of_equity, re |-> cost_of_equity, rd |-> Py(0),
              interest_expense |-> interest_expense]
        ELSE IF DivRaises(market_cap, Add(market_cap, total_debt))
        THEN AllNone(interest_expense)
        ELSE [wacc |-> BlendedWacc(market_cap, total_debt, cost_of_equity,
                                   CostOfDebt(total_debt, interest_expense)),
              re |-> cost_of_equity,
              rd |-> CostOfDebt(total_debt, interest_expense),
              interest_expense |-> interest_expense]

(***************************************************************************)
(* calculate_dcf, lines 146-185.  a holds the six arguments.               *)
(***************************************************************************)
\* Line 165: the cash flow of year i; line 166 divides it by Discount(a, i).
Projected(a, i) == Mul(a.free_cash_flow, Pow(Add(Py(1), a.growth_rate), i))
Discount(a, i) == Pow(Add(Py(1), a.discount_rate), i)

RECURSIVE SumDiscounted(_, _)
\* Line 175: sum(future_cash_flows), over the years 1..i.
SumDiscounted(a, i) ==
    IF i = 0 THEN Py(0)
    ELSE Add(SumDiscounted(a, i - 1), Div(Projected(a, i), Discount(a, i)))

\* Lines 170-172.
TerminalValueFcf(a) == Mul(Projected(a, 5), Add(Py(1), a.terminal_growth_rate))
Spread(a) == Sub(a.discount_rate, a.terminal_growth_rate)
TerminalValue(a) == Div(TerminalValueFcf(a), Spread(a))
DiscountedTerminalValue(a) == Div(TerminalValue(a), Discount(a, 5))

\* Lines 175-178.
EquityValue(a) == Sub(Add(SumDiscounted(a, 5), DiscountedTerminalValue(a)), a.net_debt)

\* An argument that is None makes the arithmetic raise TypeError.
DcfTypeError(a) ==
    \E key \in DOMAIN a : IsNone(a[key])

\* A division of Python numbers by zero raises ZeroDivisionError.
DcfZeroDivision(a) ==
    \/ \E i \in 1..5 : DivRaises(Projected(a, i), Discount(a, i))
    \/ DivRaises(TerminalValueFcf(a), Spread(a))
    \/ DivRaises(TerminalValue(a), Discount(a, 5))
    \/ DivRaises(EquityValue(a), a.shares_outstanding)

\* A valuation that floors the value per share at zero.
CalculateDcfClamped(a) ==
    IF DcfTypeError(a) THEN None
    ELSE IF DcfZeroDivision(a) THEN None
    ELSE LET v == Div(EquityValue(a), a.shares_outstanding)
         IN  IF IsNum(v) /\ v.n < 0 THEN Mk(0, 1, v.np) ELSE v

\* Lines 161-185: the value per share, or None from the except clause.
CalculateDcfOf(a) ==
    IF DcfTypeError(a) THEN None
    ELSE IF DcfZeroDivision(a) THEN None
    ELSE Div(EquityValue(a), a.shares_outstanding)

(***************************************************************************)
(* calculate_indicators.  A price history is a frame of n bars whose       *)
(* 'Close' column (when it has one) holds close[1..n], oldest bar first;   *)
(* columns is the set of indicator columns added to it and at[c] the cells *)
(* of column c.  The indicator functions are those of the ta library: the  *)
(* windows are the arguments the code passes (or the library's defaults    *)
(* for MACD), and a value is NaN until its window is filled.  The values   *)
(* of the exponentially smoothed indicators are not computed: a filled     *)
(* cell of RSI, MACD or MACD_Signal is Finite, some finite float.          *)
(***************************************************************************)
SMA_20 == "SMA_20"
SMA_50 == "SMA_50"
RSI == "RSI"
MACD == "MACD"
MACD_Signal == "MACD_Signal"

Finite == [k |-> "float", n |-> 0, d |-> 1, np |-> TRUE]

NoneFrame == [none |-> TRUE, n |-> 0, has_close |-> FALSE, close |-> <<>>,
              columns |-> {}, at |-> <<>>]
PriceFrame(close, has_close) ==
    [none |-> FALSE, n |-> Len(close), has_close |-> has_close, close |-> close,
     columns |-> {}, at |-> <<>>]

RECURSIVE SumCloses(_, _, _)
SumCloses(close, lo, hi) ==
    IF hi < lo THEN Np(0) ELSE Add(SumCloses(close, lo, hi - 1), close[hi])

\* ta.trend.sma_indicator(close, window): the mean of the last window
\* closes, NaN before the window is filled.
SmaIndicator(close, window) ==
    [i \in 1..Len(close) |->
        IF i >= window THEN Div(SumCloses(close, i - window + 1, i), Np(window))
        ELSE NaN]

\* ta.momentum.rsi(close, window): smoothed average gain and loss over the
\* window, NaN before the window is filled.
Rsi(close, window) ==
    [i \in 1..Len(close) |-> IF i >= window THEN Finite ELSE NaN]

\* ta.trend.MACD(close).macd(): the 12-period less the 26-period
\* exponential average, NaN until the slow window is filled.
MacdLine(close) ==
    [i \in 1..Len(close) |-> IF i >= 26 THEN Finite ELSE NaN]

\* ta.trend.MACD(close).macd_signal(): the 9-period exponential average of
\* the MACD line, NaN until it has 9 values of the line.
MacdSignal(close) ==
    [i \in 1..Len(close) |-> IF i >= 26 + 9 - 1 THEN Finite ELSE NaN]

\* An indicator step that passes 10 as the window of the short average.
CalculateIndicatorsShortWindow(frame) ==
    IF frame.none \/ frame.n = 0 THEN frame
    ELSE IF ~frame.has_close THEN frame
    ELSE [frame EXCEPT
            !.columns = {SMA_20, SMA_50, RSI, MACD, MACD_Signal},
            !.at = (SMA_20 :> SmaIndicator(frame.close, 10)) @@
                   (SMA_50 :> SmaIndicator(frame.close, 50)) @@
                   (RSI :> Rsi(frame.close, 14)) @@
                   (MACD :> MacdLine(frame.close)) @@
                   (MACD_Signal :> MacdSignal(frame.close))]

\* calculate_indicators(df), lines 110-144: None and an empty frame are
\* returned as they are (lines 114-115); reading a missing 'Close' column
\* raises at line 131, before any column is added, and the except clause
\* returns the frame as it was; otherwise the five columns are added.
CalculateIndicatorsOf(frame) ==
    IF frame.none \/ frame.n = 0 THEN frame
    ELSE IF ~frame.has_close THEN frame
    ELSE [frame EXCEPT
            !.columns = {SMA_20, SMA_50, RSI, MACD, MACD_Signal},
            !.at = (SMA_20 :> SmaIndicator(frame.close, 20)) @@
                   (SMA_50 :> SmaIndicator(frame.close, 50)) @@
                   (RSI :> Rsi(frame.close, 14)) @@
                   (MACD :> MacdLine(frame.close)) @@
                   (MACD_Signal :> MacdSignal(frame.close))]

(***************************************************************************)
(* The state.                                                              *)
(*   snapshot  what stock.info returns for the ticker                      *)
(*   src       the provider's other responses for the ticker               *)
(*   info      the dict fetch_stock_info works on and returns              *)
(*   pc        "start", "fetched" (fetch_stock_info has returned),         *)
(*             "renormalized" (its steps were run again on its result),    *)
(*             "wacc" (calculate_wacc has returned), "dcf" (calculate_dcf  *)
(*             has returned)                                               *)
(*   returned  what fetch_stock_info returned: "info", "None" or "pending" *)
(*   runs      how many times the normalization steps were run             *)
(*   wacc_data the triple calculate_wacc returned, with the interest       *)
(*             expense it read                                             *)
(*   dcf_args  the arguments of calculate_dcf                              *)
(*   intrinsic_value  what calculate_dcf returned                          *)
(*   data      the price history calculate_indicators is given, and then   *)
(*             what it returned ("indicators" is pc after it has returned) *)
(*   session_state  st.session_state of main between two runs of the       *)
(*             script: the entries data, info, ticker, wacc_data, news,    *)
(*             dcf_state and the selected view                             *)
(*   screen    the valuation panel the last run of the script rendered     *)
(***************************************************************************)
VARIABLES snapshot, src, info, pc, returned, runs, wacc_data, dcf_args,
          intrinsic_value, data, session_state, screen

vars == <<snapshot, src, info, pc, returned, runs, wacc_data, dcf_args,
          intrinsic_value, data, session_state, screen>>

\* How many times the normalization steps are run on one profile.
MaxRuns == 2
\* The bars of the recent price history, at most.
MaxBars == 2
\* The period columns of a financial statement.
NPeriods == 2
\* The bars of a price history given to calculate_indicators, at most.
MaxSeries == 21

Profile(cp, rmp, sh, fcf, td, tc, b, mc) ==
    [currentPrice |-> cp, regularMarketPrice |-> rmp, sharesOutstanding |-> sh,
     freeCashFlow |-> fcf, totalDebt |-> td, totalCash |-> tc, beta |-> b,
     marketCap |-> mc]

NoInfo == Profile(Absent, Absent, Absent, Absent, Absent, Absent, Absent, Absent)

\* A statement with the rows of index, row r holding the cells at[r].
Frame(index, cells) == [index |-> index, ncol |-> NPeriods, at |-> cells]
NaNRow == [c \in 1..NPeriods |-> NaN]
EmptyFrame == [index |-> {}, ncol |-> 0, at |-> <<>>]
Raises == [ok |-> FALSE, df |-> EmptyFrame]
Table(df) == [ok |-> TRUE, df |-> df]

\* The cells row r may hold in period c: NaN, or a number of that period
\* (so that the period a value was read from shows in the value).
Cells(r, c) ==
    CASE r = FCF -> {NaN, Np(0), Np(50 + c)}
      [] r = OCF -> {NaN, Np(100 * c)}
      [] r = CAPEX -> {NaN, Np(-30 * c)}
      [] r = TD -> {NaN, Np(20 + c)}
      [] r = LTD -> {Np(15 + c)}
      [] r = CCE -> {Np(8 + c)}
      [] r = CCESTI -> {Np(4 + c)}
      [] r = IE -> {NaN, Np(0), Np(-50 * c)}
      [] r = IENO -> {NaN, Np(40 * c)}

RowChoices(r) ==
    {f \in [1..NPeriods -> UNION {Cells(r, c) : c \in 1..NPeriods}] :
        \A c \in 1..NPeriods : f[c] \in Cells(r, c)}

RowAssign(index) ==
    {g \in [index -> UNION {RowChoices(r) : r \in index}] :
        \A r \in index : g[r] \in RowChoices(r)}

\* Every statement over the given rows: which rows exist, and their cells.
Frames(rows) ==
    UNION {{Frame(index, cells) : cells \in RowAssign(index)} : index \in SUBSET rows}

\* The row of r with a number in every period.
FullRow(r) == [c \in 1..NPeriods |-> CHOOSE v \in Cells(r, c) : IsNum(v) /\ ~IsZero(v)]
FullFrame(index) == Frame(index, [r \in index |-> FullRow(r)])

(***************************************************************************)
(* The inputs of fetch_stock_info.                                         *)
(***************************************************************************)
Unavailable == [ok |-> FALSE, dict |-> NoInfo]

Snapshots ==
    {Unavailable} \cup
    {[ok |-> TRUE, dict |-> Profile(p, p, sh, fcf, td, tc, Frac(6, 5), Py(1000))] :
        p \in {Absent, None, Py(9)}, sh \in {Absent, None, Py(0), Py(5)},
        fcf \in {None, Py(40)}, td \in {Absent, None, Py(20)}, tc \in {None, Py(8)}}

Fasts ==
    {[ok |-> FALSE, last_price |-> None, shares |-> None]} \cup
    {[ok |-> TRUE, last_price |-> lp, shares |-> sh] :
        lp \in {None, Py(0), Py(7)}, sh \in {None, Py(6)}}

Hists ==
    {[ok |-> FALSE, close |-> <<>>]} \cup
    {[ok |-> TRUE, close |-> [i \in 1..n |-> Np(10 + i)]] : n \in 0..MaxBars}

\* Cash-flow statements: every one over its three rows, and the few that
\* take fetch_stock_info through each branch of its third step.
Cashflows == {Raises, Table(EmptyFrame)} \cup {Table(df) : df \in Frames({FCF, OCF, CAPEX})}
FewCashflows ==
    {Raises, Table(EmptyFrame), Table(FullFrame({FCF})), Table(FullFrame({OCF, CAPEX})),
     Table(Frame({FCF, OCF, CAPEX}, [r \in {FCF, OCF, CAPEX} |->
                                        IF r = FCF THEN NaNRow ELSE FullRow(r)]))}

BalanceSheets ==
    {Raises, Table(EmptyFrame)} \cup {Table(df) : df \in Frames({TD, LTD, CCE, CCESTI})}
FewBalanceSheets ==
    {Raises, Table(EmptyFrame), Table(FullFrame({TD, CCE})),
     Table(FullFrame({LTD, CCESTI}))}

Source(fast, hist, cf, bs, fin) ==
    [fast |-> fast, hist |-> hist, cf |-> cf, bs |-> bs, fin |-> fin]

NoWacc == AllNone(None)
NoDcf == [free_cash_flow |-> None, growth_rate |-> None, discount_rate |-> None,
          terminal_growth_rate |-> None, shares_outstanding |-> None,
          net_debt |-> None]

\* The valuation panel: nothing, or one of its renderings.  "result" shows
\* the value with the figures of the stored profile (lines 197-199).
NoPanel == [panel |-> "none", result |-> None, fcf |-> None, shares |-> None,
            net_debt |-> None]

NoDcfState == [growth_rate |-> None, terminal_rate |-> None,
               discount_rate |-> None, result |-> None]

\* st.session_state before the first Analyze: no entry is set.
NoSession ==
    [has_data |-> FALSE, data |-> NoneFrame,
     info |-> [none |-> TRUE, dict |-> NoInfo], ticker |-> "",
     wacc_data |-> [wacc |-> None, re |-> None, rd |-> None], news |-> <<>>,
     has_dcf |-> FALSE, dcf_state |-> NoDcfState, view |-> "Charts"]

\* Nothing has been called yet.
Idle ==
    /\ info = NoInfo
    /\ pc = "start"
    /\ returned = "pending"
    /\ runs = 0
    /\ wacc_data = NoWacc
    /\ intrinsic_value = None
    /\ data = NoneFrame
    /\ session_state = NoSession
    /\ screen = NoPanel

InitNorm ==
    /\ snapshot \in Snapshots
    /\ \E fast \in Fasts, hist \in Hists, cf \in FewCashflows, bs \in FewBalanceSheets :
          src = Source(fast, hist, cf, bs, Raises)
    /\ dcf_args = NoDcf
    /\ Idle

\* The cash-flow step on every cash-flow statement, the other inputs fixed.
InitFcf ==
    /\ \E fcf \in {Absent, None, Py(40)} :
          snapshot = [ok |-> TRUE,
                      dict |-> Profile(Py(9), Py(9), Py(5), fcf, Py(20), Py(8),
                                       Frac(6, 5), Py(1000))]
    /\ \E cf \in Cashflows, fast \in {f \in Fasts : f.last_price = None} :
          src = Source(fast, [ok |-> TRUE, close |-> <<>>], cf, Raises, Raises)
    /\ dcf_args = NoDcf
    /\ Idle

\* fetch_stock_info(ticker), lines 18-108: None if stock.info raises, else
\* the snapshot after the five steps.
FetchStockInfo ==
    /\ pc = "start"
    /\ pc' = "fetched"
    /\ IF snapshot.ok
       THEN /\ info' = NormalizationSteps(snapshot.dict, src)
            /\ returned' = "info"
            /\ runs' = 1
       ELSE /\ info' = NoInfo
            /\ returned' = "None"
            /\ runs' = 0
    /\ UNCHANGED <<snapshot, src, wacc_data, dcf_args, intrinsic_value, data,
                   session_state, screen>>

\* The steps of lines 26-103 run again on the profile they produced, with
\* the same provider responses.
Renormalize ==
    /\ pc \in {"fetched", "renormalized"}
    /\ returned = "info"
    /\ runs < MaxRuns
    /\ pc' = "renormalized"
    /\ info' = NormalizationSteps(info, src)
    /\ runs' = runs + 1
    /\ UNCHANGED <<snapshot, src, returned, wacc_data, dcf_args, intrinsic_value, data,
                   session_state, screen>>

\* The profiles and statements calculate_wacc is called with: the snapshot
\* and the balance sheet decide beta, marketCap and totalDebt of the profile
\* (a total debt read from the balance sheet may be NaN).
InitWacc ==
    /\ snapshot \in
          {Unavailable} \cup
          {[ok |-> TRUE, dict |-> Profile(Py(9), Py(9), Py(5), Py(40), td, Py(8), b, mc)] :
              b \in {Absent, None, Py(0), Frac(6, 5)},
              mc \in {Absent, None, Py(0), Py(1000)},
              td \in {Absent, None, Py(0), Py(200), Py(2000)}}
    /\ \E bs \in {Raises} \cup {Table(df) : df \in Frames({TD})},
          fin \in {Raises, Table(EmptyFrame)} \cup {Table(df) : df \in Frames({IE, IENO})} :
          src = Source([ok |-> FALSE, last_price |-> None, shares |-> None],
                       [ok |-> FALSE, close |-> <<>>], Raises, bs, fin)
    /\ dcf_args = NoDcf
    /\ Idle

\* calculate_wacc(ticker, info) as main calls it with what fetch_stock_info
\* returned, lines 187-250.  Given None it fetches the profile itself, and
\* returns three None if that is None again (lines 192-194).
CalculateWacc ==
    /\ pc = "fetched"
    /\ pc' = "wacc"
    /\ wacc_data' =
          IF returned = "info" THEN CalculateWaccOf(info, src.fin)
          ELSE IF snapshot.ok
          THEN CalculateWaccOf(NormalizationSteps(snapshot.dict, src), src.fin)
          ELSE AllNone(None)
    /\ UNCHANGED <<snapshot, src, info, returned, runs, dcf_args, intrinsic_value, data,
                   session_state, screen>>

NextWacc == FetchStockInfo \/ CalculateWacc

\* The arguments of calculate_dcf: Python numbers, None, and numpy scalars
\* for the two amounts fetch_stock_info reads out of a statement.
InitDcf ==
    /\ dcf_args \in
          [free_cash_flow : {None, Py(10), Np(10)},
           growth_rate : {None, Py(0), Frac(1, 10)},
           discount_rate : {None, Py(-1), Py(0), Frac(1, 10)},
           terminal_growth_rate : {None, Py(0), Frac(1, 40), Frac(1, 10)},
           shares_outstanding : {None, Py(0), Py(10)},
           net_debt : {None, Py(5), Np(5), Py(500)}]
    /\ snapshot = Unavailable
    /\ src = Source([ok |-> FALSE, last_price |-> None, shares |-> None],
                    [ok |-> FALSE, close |-> <<>>], Raises, Raises, Raises)
    /\ Idle

\* calculate_dcf(...), lines 146-185.
CalculateDcf ==
    /\ pc = "start"
    /\ pc' = "dcf"
    /\ intrinsic_value' = CalculateDcfOf(dcf_args)
    /\ UNCHANGED <<snapshot, src, info, returned, runs, wacc_data, dcf_args, data,
                   session_state, screen>>

NextDcf == CalculateDcf

\* The closes of an n-bar history: rising, falling, flat or alternating.
Closes(shape, n) ==
    [i \in 1..n |->
        CASE shape = "rising" -> Np(10 + i)
          [] shape = "falling" -> Np(60 - i)
          [] shape = "flat" -> Np(20)
          [] shape = "alternating" -> Np(20 + (i % 2))]

Histories ==
    {NoneFrame} \cup
    {PriceFrame(Closes(shape, n), has_close) :
        shape \in {"rising", "falling", "flat", "alternating"},
        n \in 0..MaxSeries, has_close \in BOOLEAN}

InitInd ==
    /\ snapshot = Unavailable
    /\ src = Source([ok |-> FALSE, last_price |-> None, shares |-> None],
                    [ok |-> FALSE, close |-> <<>>], Raises, Raises, Raises)
    /\ dcf_args = NoDcf
    /\ info = NoInfo
    /\ pc = "start"
    /\ returned = "pending"
    /\ runs = 0
    /\ wacc_data = NoWacc
    /\ intrinsic_value = None
    /\ data \in Histories
    /\ session_state = NoSession
    /\ screen = NoPanel

\* calculate_indicators(df), lines 110-144.
CalculateIndicators ==
    /\ pc = "start"
    /\ pc' = "indicators"
    /\ data' = CalculateIndicatorsOf(data)
    /\ UNCHANGED <<snapshot, src, info, returned, runs, wacc_data, dcf_args,
                   intrinsic_value,
                   session_state, screen>>

NextInd == CalculateIndicators

(***************************************************************************)
(* main.  One run of the script per user action: the Analyze button, the   *)
(* view radio, or the submit button of the valuation form.                 *)
(***************************************************************************)
Tickers == {"AAPL", "000660.KS"}
Views == {"Charts", "Technical Analysis", "Valuation (DCF)", "Latest News"}

\* What the provider holds for each ticker: one has every fundamental in its
\* snapshot, the other has them in its statements only.
SnapshotOf(t) ==
    IF t = "AAPL"
    THEN [ok |-> TRUE, dict |-> Profile(Py(9), Py(9), Py(10), Py(10), Py(5), Py(2),
                                       Frac(6, 5), Py(1000))]
    ELSE [ok |-> TRUE, dict |-> Profile(Absent, Absent, None, None, Absent, None,
                                       Frac(6, 5), Py(1000))]

SourceOf(t) ==
    IF t = "AAPL"
    THEN Source([ok |-> TRUE, last_price |-> Py(7), shares |-> Py(6)],
                [ok |-> TRUE, close |-> <<Np(11)>>], Raises, Raises, Table(EmptyFrame))
    ELSE Source([ok |-> TRUE, last_price |-> None, shares |-> Py(6)],
                [ok |-> TRUE, close |-> <<Np(11)>>], Table(FullFrame({FCF})),
                Table(FullFrame({TD, CCE})), Table(FullFrame({IE})))

DataOf(t) ==
    IF t = "AAPL" THEN PriceFrame(Closes("rising", 3), TRUE)
    ELSE PriceFrame(Closes("falling", 3), TRUE)

NewsOf(t) == <<[title |-> "headline", ticker |-> t]>>

\* fetch_stock_data, lines 5-16: the price history, or None when the
\* download is empty or raises.
FetchStockDataOf(t, ok) == IF ok THEN DataOf(t) ELSE NoneFrame

\* fetch_stock_info, lines 18-108: the normalized profile, or None when
\* stock.info raises.
FetchStockInfoOf(t, ok) ==
    IF ok THEN [none |-> FALSE, dict |-> NormalizationSteps(SnapshotOf(t).dict, SourceOf(t))]
    ELSE [none |-> TRUE, dict |-> NoInfo]

\* calculate_wacc(ticker, info) as a dict, main lines 57-58; given None it
\* fetches the profile of the ticker again (utils lines 192-194).
WaccDataOf(t, inf, refetch_ok) ==
    LET again == FetchStockInfoOf(t, refetch_ok)
        w == IF ~inf.none THEN CalculateWaccOf(inf.dict, SourceOf(t).fin)
             ELSE IF ~again.none THEN CalculateWaccOf(again.dict, SourceOf(t).fin)
             ELSE AllNone(None)
    IN  [wacc |-> w.wacc, re |-> w.re, rd |-> w.rd]

\* fetch_stock_news, utils lines 252-262, and main lines 61-65.
FetchStockNewsOf(t, ok) == IF ok THEN NewsOf(t) ELSE <<>>

\* x or 0
OrZero(v) == IF Truthy(Get(v)) THEN Get(v) ELSE Py(0)

\* Lines 135-141: the figures of the valuation, read from the stored profile.
NetDebt(inf) == Sub(OrZero(inf.totalDebt), OrZero(inf.totalCash))
Sufficient(inf) == Truthy(Get(inf.freeCashFlow)) /\ Truthy(Get(inf.sharesOutstanding))

\* Lines 172-176: the arguments of calculate_dcf, the rates given in percent.
DcfArgs(inf, growth, terminal, discount) ==
    [free_cash_flow |-> Get(inf.freeCashFlow),
     growth_rate |-> Div(growth, Py(100)),
     discount_rate |-> Div(discount, Py(100)),
     terminal_growth_rate |-> Div(terminal, Py(100)),
     shares_outstanding |-> Get(inf.sharesOutstanding),
     net_debt |-> NetDebt(inf)]

\* Lines 69-78: a run with stored data adds the indicator columns to the
\* stored frame when it has none.
WithIndicators(ss) ==
    IF ss.has_data /\ SMA_20 \notin ss.data.columns
    THEN [ss EXCEPT !.data = CalculateIndicatorsOf(ss.data)]
    ELSE ss

\* Lines 131-206: what the valuation view renders from the session.
DcfPanel(ss) ==
    IF ~ss.has_data \/ ss.view # "Valuation (DCF)" THEN NoPanel
    ELSE IF ss.info.none THEN [NoPanel EXCEPT !.panel = "no info"]
    ELSE IF ~Sufficient(ss.info.dict) THEN [NoPanel EXCEPT !.panel = "insufficient"]
    ELSE IF ~ss.has_dcf THEN [NoPanel EXCEPT !.panel = "form"]
    ELSE IF Truthy(ss.dcf_state.result)
    THEN [panel |-> "result", result |-> ss.dcf_state.result,
          fcf |-> Get(ss.info.dict.freeCashFlow),
          shares |-> Get(ss.info.dict.sharesOutstanding),
          net_debt |-> NetDebt(ss.info.dict)]
    ELSE [NoPanel EXCEPT !.panel = "error"]

\* Lines 51-67: the entries an Analyze stores; nothing when the price
\* history is None.
StoreAnalysis(ss, t, df, inf, refetch_ok, news_ok) ==
    IF df.none THEN ss
    ELSE [ss EXCEPT !.has_data = TRUE, !.data = df, !.info = inf, !.ticker = t,
                    !.wacc_data = WaccDataOf(t, inf, refetch_ok),
                    !.news = FetchStockNewsOf(t, news_ok)]

\* The percentages typed into the valuation form.
GrowthInputs == {Py(0), Py(10)}
TerminalInputs == {Frac(5, 2), Py(10)}
DiscountInputs == {Py(10), Py(20)}

InitSession ==
    /\ snapshot = Unavailable
    /\ src = Source([ok |-> FALSE, last_price |-> None, shares |-> None],
                    [ok |-> FALSE, close |-> <<>>], Raises, Raises, Raises)
    /\ dcf_args = NoDcf
    /\ Idle

\* The Analyze button, lines 45-67, and the rest of that run of the script.
Analyze ==
    \E t \in Tickers, data_ok \in BOOLEAN, info_ok \in BOOLEAN,
       refetch_ok \in BOOLEAN, news_ok \in BOOLEAN :
       LET stored == StoreAnalysis(session_state, t, FetchStockDataOf(t, data_ok),
                                   FetchStockInfoOf(t, info_ok), refetch_ok, news_ok)
       IN  /\ session_state' = WithIndicators(stored)
           /\ screen' = DcfPanel(stored)
           /\ UNCHANGED <<snapshot, src, info, pc, returned, runs, wacc_data,
                          dcf_args, intrinsic_value, data>>

\* The view radio, line 110: a run that stores nothing but the view.
SelectView ==
    /\ session_state.has_data
    /\ \E v \in Views :
          LET stored == [session_state EXCEPT !.view = v]
          IN  /\ session_state' = WithIndicators(stored)
              /\ screen' = DcfPanel(stored)
    /\ UNCHANGED <<snapshot, src, info, pc, returned, runs, wacc_data, dcf_args,
                   intrinsic_value, data>>

\* The submit button of the valuation form, lines 154-184, which exists
\* when the valuation view shows a sufficient profile; then lines 186-201.
SubmitDcf ==
    /\ session_state.has_data
    /\ session_state.view = "Valuation (DCF)"
    /\ ~session_state.info.none
    /\ Sufficient(session_state.info.dict)
    /\ \E growth \in GrowthInputs, terminal \in TerminalInputs,
          discount \in DiscountInputs :
          LET args == DcfArgs(session_state.info.dict, growth, terminal, discount)
              stored == [session_state EXCEPT
                            !.has_dcf = TRUE,
                            !.dcf_state = [growth_rate |-> growth,
                                           terminal_rate |-> terminal,
                                           discount_rate |-> discount,
                                           result |-> CalculateDcfOf(args)]]
          IN  /\ session_state' = WithIndicators(stored)
              /\ screen' = DcfPanel(stored)
    /\ UNCHANGED <<snapshot, src, info, pc, returned, runs, wacc_data, dcf_args,
                   intrinsic_value, data>>

NextSession == Analyze \/ SelectView \/ SubmitDcf

NextNorm == FetchStockInfo \/ Renormalize

Spec == InitNorm /\ [][NextNorm]_vars

SpecFcf == InitFcf /\ [][NextNorm]_vars

SpecWacc == InitWacc /\ [][NextWacc]_vars

SpecDcf == InitDcf /\ [][NextDcf]_vars

SpecInd == InitInd /\ [][NextInd]_vars

SpecSession == InitSession /\ [][NextSession]_vars

(***************************************************************************)
(* Claims about fetch_stock_info.                                          *)
(***************************************************************************)
NonNull(v) == ~IsNone(Get(v))

\* C1: normalization is idempotent: running the steps of fetch_stock_info
\* again on the profile they produced, with the same provider responses,
\* leaves every key and every value of the profile as it was.
C1_Idempotent == [][pc' = "renormalized" => info' = info]_vars

\* The steps have run twice on a snapshot whose price, shares, free cash
\* flow, debt and cash the first run all filled in.
C1_Witness ==
    /\ pc = "renormalized"
    /\ \A key \in {"currentPrice", "sharesOutstanding", "freeCashFlow", "totalDebt",
                   "totalCash"} :
          ~NonNull(snapshot.dict[key]) /\ NonNull(info[key])

\* C2: a sharesOutstanding that the snapshot holds (present and not None)
\* is returned as it was, whatever the fast quote's shares are.
C2_SharesKept ==
    (returned = "info" /\ NonNull(snapshot.dict.sharesOutstanding))
        => info.sharesOutstanding = snapshot.dict.sharesOutstanding

\* The snapshot holds shares and the fast quote answers with other shares.
C2_Witness ==
    /\ pc = "fetched"
    /\ returned = "info"
    /\ NonNull(snapshot.dict.sharesOutstanding)
    /\ src.fast.ok
    /\ Truthy(src.fast.shares)
    /\ src.fast.shares # snapshot.dict.sharesOutstanding

\* C3 as stated: a non-null currentPrice and regularMarketPrice of the
\* snapshot are left unchanged by normalization.
C3_PriceKept ==
    (returned = "info" /\ NonNull(snapshot.dict.currentPrice)
                       /\ NonNull(snapshot.dict.regularMarketPrice))
        => /\ info.currentPrice = snapshot.dict.currentPrice
           /\ info.regularMarketPrice = snapshot.dict.regularMarketPrice

\* C3 amended: the price step does not look at the fields it writes.  A
\* truthy last price of the fast quote replaces currentPrice and
\* regularMarketPrice, also non-null ones; without one (and the fast quote
\* answering) the last close of a non-empty history replaces them; they are
\* left as the snapshot had them only when neither source yields a price.
C3_PriceOverwritten ==
    returned = "info" =>
        LET lp == src.fast.last_price
            close == src.hist.close
        IN  IF src.fast.ok /\ Truthy(lp)
            THEN info.currentPrice = lp /\ info.regularMarketPrice = lp
            ELSE IF src.fast.ok /\ src.hist.ok /\ Len(close) > 0
            THEN /\ info.currentPrice = close[Len(close)]
                 /\ info.regularMarketPrice = close[Len(close)]
            ELSE /\ info.currentPrice = snapshot.dict.currentPrice
                 /\ info.regularMarketPrice = snapshot.dict.regularMarketPrice

\* The snapshot holds a price and the fast quote another one, which won.
C3_Witness ==
    /\ pc = "fetched"
    /\ returned = "info"
    /\ NonNull(snapshot.dict.currentPrice)
    /\ NonNull(snapshot.dict.regularMarketPrice)
    /\ src.fast.ok
    /\ Truthy(src.fast.last_price)
    /\ info.currentPrice # snapshot.dict.currentPrice
    /\ info.currentPrice = src.fast.last_price

\* The cash-flow statement as fetch_stock_info reads it: no rows and no
\* periods when the lookup raises.
CfRow(r) == src.cf.df.at[r]
CfHas(r) == src.cf.ok /\ ~Empty(src.cf.df) /\ r \in src.cf.df.index
BothAt(c) == CfHas(OCF) /\ CfHas(CAPEX) /\ NotNa(CfRow(OCF)[c]) /\ NotNa(CfRow(CAPEX)[c])
\* The most recent period with operating cash flow and capital expenditure.
IsFirstBoth(c) == BothAt(c) /\ \A x \in 1..(c - 1) : ~BothAt(x)
\* The direct row has a usable value: a period that is neither NaN nor zero.
DirectUsable ==
    CfHas(FCF) /\ \E c \in 1..src.cf.df.ncol : NotNa(CfRow(FCF)[c]) /\ ~IsZero(CfRow(FCF)[c])

\* C4: with no free cash flow in the snapshot and no usable value in the
\* direct row (every period NaN or zero, or no such row), freeCashFlow is
\* the operating cash flow plus the capital expenditure of the most recent
\* period that has both, and stays null only if there is no such period.
C4_FallbackWhenDirectUnusable ==
    (pc = "fetched" /\ returned = "info" /\ ~NonNull(snapshot.dict.freeCashFlow)
                    /\ ~DirectUsable)
        => /\ \A c \in 1..NPeriods :
                 IsFirstBoth(c) =>
                     SameValue(info.freeCashFlow, Add(CfRow(OCF)[c], CfRow(CAPEX)[c]))
           /\ (\A c \in 1..NPeriods : ~BothAt(c)) => ~NonNull(info.freeCashFlow)

\* C5: with no free cash flow in the snapshot and no "Free Cash Flow" row
\* in the statement, freeCashFlow is the operating cash flow plus the
\* (negative) capital expenditure of the most recent period that has both;
\* 100 and -30 give 70.
C5_FallbackSum ==
    (pc = "fetched" /\ returned = "info" /\ ~NonNull(snapshot.dict.freeCashFlow)
                    /\ ~CfHas(FCF))
        => \A c \in 1..NPeriods :
              IsFirstBoth(c) =>
                 /\ SameValue(info.freeCashFlow, Add(CfRow(OCF)[c], CfRow(CAPEX)[c]))
                 /\ (SameValue(CfRow(OCF)[c], Py(100)) /\ SameValue(CfRow(CAPEX)[c], Py(-30)))
                        => SameValue(info.freeCashFlow, Py(70))

\* No direct row, the most recent period lacks the capital expenditure, and
\* the free cash flow is the sum of the period before it.
C5_Witness ==
    /\ pc = "fetched"
    /\ returned = "info"
    /\ ~NonNull(snapshot.dict.freeCashFlow)
    /\ ~CfHas(FCF)
    /\ ~BothAt(1)
    /\ IsFirstBoth(2)
    /\ SameValue(info.freeCashFlow, Py(200 - 60))

(***************************************************************************)
(* Claims about calculate_wacc.  info is the profile it was called with    *)
(* (no profile at all when fetch_stock_info returned None).                *)
(***************************************************************************)
NullsOf(r) == {x \in {"wacc", "re", "rd"} : IsNone(r[x])}
CapmOf(beta) == Add(Frac(425, 10000), Mul(beta, Frac(1, 20)))

\* C6: calculate_wacc returns three values or three None, never a mix; it
\* returns three None when beta is null, when marketCap is null, and when
\* reading the income statement raises (the exception is not passed on).
C6_AllOrNothing ==
    pc = "wacc" =>
        /\ Cardinality(NullsOf(wacc_data)) \in {0, 3}
        /\ (~NonNull(info.beta) \/ ~NonNull(info.marketCap))
              => Cardinality(NullsOf(wacc_data)) = 3
        /\ (NonNull(info.beta) /\ ~src.fin.ok) => Cardinality(NullsOf(wacc_data)) = 3

\* A profile with beta, market cap and debt, and an income statement whose
\* lookup raised: the call returned three None.
C6_Witness ==
    /\ pc = "wacc"
    /\ returned = "info"
    /\ NonNull(info.beta)
    /\ Truthy(Get(info.marketCap))
    /\ Truthy(Get(info.totalDebt))
    /\ ~src.fin.ok
    /\ Cardinality(NullsOf(wacc_data)) = 3

\* C7 as stated: with beta non-null, marketCap present and totalDebt null
\* or zero, wacc is the cost of equity and the cost of debt is 0.0.
C7_AllEquity ==
    (pc = "wacc" /\ returned = "info" /\ NonNull(info.beta) /\ NonNull(info.marketCap)
                 /\ ~Truthy(Get(info.totalDebt)))
        => /\ wacc_data.re = CapmOf(info.beta)
           /\ wacc_data.wacc = wacc_data.re
           /\ SameValue(wacc_data.rd, Py(0))

\* C7 amended: with beta non-null, marketCap non-null and not zero, and
\* totalDebt null or zero, wacc is the cost of equity and the cost of debt
\* is 0.0, whatever interest expense the income statement holds, provided
\* that reading the income statement does not raise; with a marketCap of
\* zero, or when that read raises, the result is three None.
C7_AllEquityNonZeroCap ==
    (pc = "wacc" /\ returned = "info" /\ NonNull(info.beta) /\ NonNull(info.marketCap)
                 /\ ~Truthy(Get(info.totalDebt)))
        => IF Truthy(info.marketCap) /\ src.fin.ok
           THEN /\ wacc_data.re = CapmOf(info.beta)
                /\ wacc_data.wacc = wacc_data.re
                /\ SameValue(wacc_data.rd, Py(0))
           ELSE Cardinality(NullsOf(wacc_data)) = 3

\* No debt, an income statement with an interest expense, and a cost of
\* debt of 0.0 all the same.
C7_Witness ==
    /\ pc = "wacc"
    /\ returned = "info"
    /\ NonNull(info.beta)
    /\ Truthy(Get(info.marketCap))
    /\ IsZero(Get(info.totalDebt))
    /\ src.fin.ok
    /\ Positive(wacc_data.interest_expense)
    /\ wacc_data.wacc = wacc_data.re
    /\ SameValue(wacc_data.rd, Py(0))

FinHas(r) == src.fin.ok /\ ~Empty(src.fin.df) /\ r \in src.fin.df.index
\* The most recent cell of row r of the income statement.
FinLatest(r) == src.fin.df.at[r][1]

\* C8: the interest expense calculate_wacc uses is the magnitude of the
\* first non-null most recent cell among the rows "Interest Expense" and
\* "Interest Expense Non Operating" (the second row when the first exists
\* with a null cell), and 0 if the statement is empty or has neither row.
C8_InterestExpense ==
    (pc = "wacc" /\ returned = "info" /\ NonNull(info.beta) /\ src.fin.ok)
        => IF FinHas(IE) /\ NotNa(FinLatest(IE))
           THEN SameValue(wacc_data.interest_expense, AbsVal(FinLatest(IE)))
           ELSE IF FinHas(IENO) /\ NotNa(FinLatest(IENO))
           THEN SameValue(wacc_data.interest_expense, AbsVal(FinLatest(IENO)))
           ELSE (~FinHas(IE) /\ ~FinHas(IENO)) => SameValue(wacc_data.interest_expense, Py(0))

\* C9: in the blended branch (beta, a market cap and a debt that are not
\* null or zero, the income statement read) the cost of debt returned is
\* interest_expense / totalDebt if totalDebt > 0 and interest_expense > 0
\* and 0.045 otherwise, and wacc is
\* equityWeight * costOfEquity + (1 - equityWeight) * costOfDebt * (1 - 0.21)
\* with equityWeight = marketCap / (marketCap + totalDebt).
C9_Blended ==
    (pc = "wacc" /\ returned = "info" /\ NonNull(info.beta) /\ src.fin.ok
                 /\ Truthy(Get(info.marketCap)) /\ Truthy(Get(info.totalDebt)))
        => LET td == info.totalDebt
               mc == info.marketCap
               ie == wacc_data.interest_expense
               equityWeight == Div(mc, Add(mc, td))
               debtWeight == Sub(Py(1), equityWeight)
           IN  /\ Cardinality(NullsOf(wacc_data)) = 0
               /\ wacc_data.re = CapmOf(info.beta)
               /\ SameValue(wacc_data.rd,
                            IF Positive(td) /\ Positive(ie) THEN Div(ie, td)
                            ELSE Frac(45, 1000))
               /\ SameValue(wacc_data.wacc,
                            Add(Mul(equityWeight, wacc_data.re),
                                Mul(Mul(debtWeight, wacc_data.rd), Frac(79, 100))))

\* Debt and interest expense are positive: the cost of debt is their
\* quotient and the wacc lies below the cost of equity.
C9_Witness ==
    /\ pc = "wacc"
    /\ returned = "info"
    /\ NonNull(info.beta)
    /\ Truthy(Get(info.marketCap))
    /\ Positive(Get(info.totalDebt))
    /\ Positive(wacc_data.interest_expense)
    /\ SameValue(wacc_data.rd, Div(wacc_data.interest_expense, info.totalDebt))
    /\ IsNum(wacc_data.wacc)
    /\ wacc_data.wacc # wacc_data.re

(***************************************************************************)
(* Claims about calculate_dcf.                                             *)
(***************************************************************************)
DcfDegenerate ==
    \/ \E key \in DOMAIN dcf_args : IsNone(dcf_args[key])
    \/ SameValue(dcf_args.discount_rate, dcf_args.terminal_growth_rate)
    \/ IsZero(dcf_args.shares_outstanding)

\* C10: calculate_dcf returns None, and raises nothing, whenever the
\* discount rate equals the terminal growth rate, the shares are zero or an
\* argument is None.
C10_NullWhenDegenerate ==
    (pc = "dcf" /\ DcfDegenerate) => IsNone(intrinsic_value)

\* The other half of C10: in every other case calculate_dcf returns a number.
C10_NumberOtherwise ==
    (pc = "dcf" /\ ~DcfDegenerate) => ~IsNone(intrinsic_value)

\* The inputs for which the valuation formula is defined: no argument is
\* None and no denominator of the formula is zero.
DcfDefined ==
    /\ ~DcfDegenerate
    /\ ~IsZero(Add(Py(1), dcf_args.discount_rate))

\* One discounted projection of the formula: fcf * (1+g)^i / (1+d)^i.
FormulaTerm(i) ==
    Div(Mul(dcf_args.free_cash_flow, Pow(Add(Py(1), dcf_args.growth_rate), i)),
        Pow(Add(Py(1), dcf_args.discount_rate), i))

\* The terminal value of the formula, discounted:
\* fcf * (1+g)^5 * (1+t) / ((d - t) * (1+d)^5).
FormulaTerminal ==
    Div(Mul(Mul(dcf_args.free_cash_flow, Pow(Add(Py(1), dcf_args.growth_rate), 5)),
            Add(Py(1), dcf_args.terminal_growth_rate)),
        Mul(Sub(dcf_args.discount_rate, dcf_args.terminal_growth_rate),
            Pow(Add(Py(1), dcf_args.discount_rate), 5)))

FormulaValue ==
    Div(Sub(Add(Add(Add(Add(Add(FormulaTerm(1), FormulaTerm(2)), FormulaTerm(3)),
                        FormulaTerm(4)), FormulaTerm(5)), FormulaTerminal),
            dcf_args.net_debt),
        dcf_args.shares_outstanding)

\* C11: where the formula is defined, calculate_dcf returns the sum of the
\* five discounted projections plus the discounted terminal value, less the
\* net debt, per share, and returns it unclamped: a negative value stays the
\* negative number the formula gives, neither None nor zero.
C11_FormulaUnclamped ==
    (pc = "dcf" /\ DcfDefined) =>
        /\ IsNum(intrinsic_value)
        /\ SameValue(intrinsic_value, FormulaValue)

\* A valuation whose net debt exceeds a positive enterprise value, returned
\* as a negative value per share.
C11_Witness ==
    /\ pc = "dcf"
    /\ DcfDefined
    /\ Positive(Sub(dcf_args.discount_rate, dcf_args.terminal_growth_rate))
    /\ Positive(Add(FormulaTerm(1), FormulaTerminal))
    /\ IsNum(intrinsic_value)
    /\ intrinsic_value.n < 0

(***************************************************************************)
(* Claims about calculate_indicators.                                      *)
(***************************************************************************)
\* calculate_indicators has returned for a price series of lo..hi bars.
IndicatorsOfSeries(lo, hi) ==
    /\ pc = "indicators"
    /\ ~data.none
    /\ data.has_close
    /\ data.n \in lo..hi

\* Column c was added and is NaN at every bar.
ColumnUndefined(c) ==
    /\ c \in data.columns
    /\ \A i \in 1..data.n : data.at[c][i] = NaN

\* C12 as stated: for every price series of 1 to 19 bars every indicator
\* column (SMA_20, SMA_50, RSI, MACD, MACD_Signal) is undefined at every
\* bar.
C12_AllUndefined ==
    IndicatorsOfSeries(1, 19) =>
        \A c \in {SMA_20, SMA_50, RSI, MACD, MACD_Signal} : ColumnUndefined(c)

\* C12 amended: for every price series of 1 to 19 bars calculate_indicators
\* returns the series with the five columns added; SMA_20, SMA_50, MACD and
\* MACD_Signal are undefined at every bar, and RSI is undefined exactly at
\* the bars before the 14th, so entirely undefined for 1 to 13 bars.
C12_UndefinedBelowWindow ==
    IndicatorsOfSeries(1, 19) =>
        /\ \A c \in {SMA_20, SMA_50, MACD, MACD_Signal} : ColumnUndefined(c)
        /\ RSI \in data.columns
        /\ \A i \in 1..data.n : (data.at[RSI][i] = NaN) <=> (i < 14)

\* A 19-bar series: the short average is still undefined at the last bar,
\* the RSI is not.
C12_Witness ==
    /\ IndicatorsOfSeries(19, 19)
    /\ ColumnUndefined(SMA_20)
    /\ data.at[RSI][13] = NaN
    /\ data.at[RSI][19] # NaN

(***************************************************************************)
(* The price fallback chain of fetch_stock_info.                           *)
(***************************************************************************)
\* No fast price was obtained: the fast-quote lookup raised, or it gave no
\* (or a zero) last price.
NoFastPrice == ~src.fast.ok \/ ~Truthy(src.fast.last_price)

\* The recent price history was read and holds at least one bar.
HistoryHasBar == src.hist.ok /\ Len(src.hist.close) >= 1

\* C13: whenever no fast price is obtained, whether the fast quote gives no
\* last price or its lookup fails, and the recent history holds at least one
\* bar, the returned profile has currentPrice and regularMarketPrice both
\* equal to the close of the most recent bar.
C13_HistoryFallback ==
    (pc # "start" /\ returned = "info" /\ NoFastPrice /\ HistoryHasBar) =>
        /\ info.currentPrice = src.hist.close[Len(src.hist.close)]
        /\ info.regularMarketPrice = src.hist.close[Len(src.hist.close)]

(***************************************************************************)
(* Claims about the session of main.                                       *)
(***************************************************************************)
\* The stored data, info, wacc_data and news are those of ticker t (or the
\* None, all-None and empty results of a failed lookup for t).
EntriesBelongTo(t) ==
    /\ session_state.data.close = DataOf(t).close
    /\ session_state.info \in {FetchStockInfoOf(t, TRUE), FetchStockInfoOf(t, FALSE)}
    /\ session_state.wacc_data \in
          {WaccDataOf(t, FetchStockInfoOf(t, TRUE), TRUE),
           WaccDataOf(t, FetchStockInfoOf(t, FALSE), FALSE)}
    /\ session_state.news \in {NewsOf(t), <<>>}

\* The first half of C14: the stored entries all belong to the stored
\* ticker.
SessionOfOneTicker ==
    session_state.has_data =>
        /\ session_state.ticker \in Tickers
        /\ EntriesBelongTo(session_state.ticker)

\* The value calculate_dcf gives for the stored profile with the stored
\* rates.
DcfOfStoredTicker ==
    CalculateDcfOf(DcfArgs(session_state.info.dict, session_state.dcf_state.growth_rate,
                           session_state.dcf_state.terminal_rate,
                           session_state.dcf_state.discount_rate))

\* C14: across any sequence of Analyze actions and valuation submissions,
\* the stored data, info, ticker, wacc_data and news all belong to one
\* ticker, and the valuation result held in dcf_state and displayed was
\* computed from the fundamentals of that stored ticker.
C14_SessionOfOneTicker ==
    /\ SessionOfOneTicker
    /\ (screen.panel = "result") =>
          /\ ~session_state.info.none
          /\ screen.result = DcfOfStoredTicker

====
